---- MODULE Spec2Model ----
(***************************************************************************)
(* OmniWordlistPro: the charset generator (src/src/generator.rs) over a    *)
(* validated Config (src/src/config.rs).                                   *)
(*                                                                         *)
(* A character is its Unicode code point, a string (String, &str) is a     *)
(* sequence of characters, Option<T> is <<>> (None) or <<x>> (Some(x)).    *)
(* String::len is the UTF-8 byte length, chars().count() the sequence      *)
(* length; the order of strings is Rust's (byte-wise, which for UTF-8 is   *)
(* the lexicographic order of the code points).                            *)
(***************************************************************************)
EXTENDS Integers, Sequences, FiniteSets, TLC

\* ------------------------------------------------------------------ bounds
MaxLen == 2
MaxLines == 2
MaxToken == 3

\* ----------------------------------------------------------- Option, strings
None == <<>>
Some(x) == <<x>>
is_some(o) == o # <<>>
unwrap(o) == o[1]

\* chars used below: a = 97, b = 98, c = 99, e-acute = 233, u-umlaut = 252,
\* '0' = 48, '1' = 49, '2' = 50, '@' = 64, superscript two = 178
len_utf8(ch) == IF ch < 128 THEN 1 ELSE IF ch < 2048 THEN 2 ELSE IF ch < 65536 THEN 3 ELSE 4

RECURSIVE str_len(_)
str_len(s) == IF s = <<>> THEN 0 ELSE len_utf8(Head(s)) + str_len(Tail(s))

RECURSIVE str_lt(_, _)
str_lt(s, t) ==
    IF t = <<>> THEN FALSE
    ELSE IF s = <<>> THEN TRUE
    ELSE IF Head(s) # Head(t) THEN Head(s) < Head(t)
    ELSE str_lt(Tail(s), Tail(t))

str_le(s, t) == s = t \/ str_lt(s, t)

Reverse(s) == [i \in 1..Len(s) |-> s[Len(s) + 1 - i]]

SetMin(S) == CHOOSE x \in S : \A y \in S : x <= y
SetMax(S) == CHOOSE x \in S : \A y \in S : x >= y

Range(s) == {s[i] : i \in 1..Len(s)}

\* ------------------------------------------------------------- charset.rs
CHARSETS_lower == <<97, 98, 99, 100, 101, 102, 103, 104, 105, 106, 107, 108, 109,
                    110, 111, 112, 113, 114, 115, 116, 117, 118, 119, 120, 121, 122>>

\* CharsetBuilder::build: duplicates removed, first occurrence kept
RECURSIVE build(_)
build(chars) ==
    IF chars = <<>> THEN <<>>
    ELSE LET init == build(SubSeq(chars, 1, Len(chars) - 1))
             last == chars[Len(chars)]
         IN  IF last \in Range(init) THEN init ELSE Append(init, last)

\* ------------------------------------------------- charset.rs, the presets
\* CHARSETS: "upper", "digit", "symbol", "alnum", "printable" ("lower" above)
CHARSETS_upper == [i \in 1..26 |-> 64 + i]
CHARSETS_digit == [i \in 1..10 |-> 47 + i]
\* !@#$%^&*()_+-=[]{}|;:,.<>?
CHARSETS_symbol == <<33, 64, 35, 36, 37, 94, 38, 42, 40, 41, 95, 43, 45, 61, 91, 93,
                     123, 125, 124, 59, 58, 44, 46, 60, 62, 63>>
CHARSETS_alnum == CHARSETS_lower \o CHARSETS_upper \o CHARSETS_digit
CHARSETS_printable == CHARSETS_alnum \o CHARSETS_symbol \o <<32>>

\* PATTERN_MARKERS with CHARSETS.get(name): '@', '%', '^', ',', '?', '!'
PATTERN_MARKERS == {64, 37, 94, 44, 63, 33}
marker_charset(ch) ==
    CASE ch = 64 -> CHARSETS_lower
      [] ch = 37 -> CHARSETS_digit
      [] ch = 94 -> CHARSETS_symbol
      [] ch = 44 -> CHARSETS_upper
      [] ch = 63 -> CHARSETS_alnum
      [] ch = 33 -> CHARSETS_printable

RECURSIVE expand_for(_, _, _, _)
\* `for ch in pattern.chars()` from the i-th character on
expand_for(pattern, literal_set, i, acc) ==
    IF i > Len(pattern) THEN acc
    ELSE LET ch == pattern[i]
         IN  IF ch \in literal_set THEN expand_for(pattern, literal_set, i + 1, Append(acc, ch))
             ELSE IF ch \in PATTERN_MARKERS
                  THEN expand_for(pattern, literal_set, i + 1, acc \o marker_charset(ch))
                  ELSE expand_for(pattern, literal_set, i + 1, Append(acc, ch))

\* Result<T>: Ok(value) or Err(error)
ResultOk(v) == [ok |-> TRUE, value |-> v, error |-> "none"]
ResultErr(e) == [ok |-> FALSE, value |-> <<>>, error |-> e]

\* mutant: a pattern character that occurred before is not expanded again
expand_pattern_unique(pattern, literal_markers) ==
    LET literal_set == IF is_some(literal_markers) THEN Range(unwrap(literal_markers)) ELSE {}
    IN  ResultOk(expand_for(build(pattern), literal_set, 1, <<>>))

expand_pattern(pattern, literal_markers) ==
    LET literal_set == IF is_some(literal_markers) THEN Range(unwrap(literal_markers)) ELSE {}
    IN  ResultOk(expand_for(pattern, literal_set, 1, <<>>))

\* -------------------------------------------------------------- config.rs
\* mutant: `>=` for `>` in the test of max_length
validate_ge(cfg) ==
    IF cfg.min_length > cfg.max_length THEN FALSE
    ELSE IF cfg.min_length = 0 THEN FALSE
    ELSE IF cfg.max_length >= 1000 THEN FALSE
    ELSE TRUE

validate(cfg) ==
    IF cfg.min_length > cfg.max_length THEN FALSE
    ELSE IF cfg.min_length = 0 THEN FALSE
    ELSE IF cfg.max_length > 1000 THEN FALSE
    ELSE TRUE

\* ----------------------------------------------------------- generator.rs
\* A run of the enumerator either returns its tokens or never returns: the
\* recursion has no bound but the stack, and the process dies of it (abort).
Ok(ts) == [abort |-> FALSE, tokens |-> ts]
Abort == [abort |-> TRUE, tokens |-> <<>>]

resolve_charset(cfg) ==
    IF is_some(cfg.charset) THEN unwrap(cfg.charset) ELSE build(CHARSETS_lower)

RECURSIVE generate_combinations_recursive(_, _, _)
RECURSIVE comb_for(_, _, _, _)
\* the body of `for &ch in chars`, from the i-th character on
comb_for(chars, length, current, i) ==
    IF i > Len(chars) THEN Ok(<<>>)
    ELSE LET r == generate_combinations_recursive(chars, length, Append(current, chars[i]))
         IN  IF r.abort THEN Abort
             ELSE LET rest == comb_for(chars, length, current, i + 1)
                  IN  IF rest.abort THEN Abort ELSE Ok(r.tokens \o rest.tokens)

\* current.len() is the byte length. Once it has passed `length` it only
\* grows, so with a character to push the recursion never ends.
generate_combinations_recursive(chars, length, current) ==
    IF str_len(current) = length THEN Ok(<<current>>)
    ELSE IF str_len(current) > length /\ chars # <<>> THEN Abort
    ELSE comb_for(chars, length, current, 1)

RECURSIVE permute_helper(_, _, _, _)
RECURSIVE perm_for(_, _, _, _, _)
perm_for(chars, length, current, used, i) ==
    IF i > Len(chars) THEN <<>>
    ELSE (IF i \notin used
          THEN permute_helper(chars, length, Append(current, chars[i]), used \cup {i})
          ELSE <<>>)
         \o perm_for(chars, length, current, used, i + 1)

permute_helper(chars, length, current, used) ==
    IF str_len(current) = length THEN <<current>>
    ELSE perm_for(chars, length, current, used, 1)

generate_permutations(chars, length) ==
    IF length > Len(chars) THEN <<>>
    ELSE permute_helper(chars, length, <<>>, {})

\* How deep the calls of generate_combinations_recursive nest below one call
\* (that call counted): None when the nesting has no end.
RECURSIVE combinations_depth(_, _, _)
combinations_depth(chars, length, current) ==
    IF str_len(current) = length THEN Some(1)
    ELSE IF str_len(current) > length /\ chars # <<>> THEN None
    ELSE LET below == {combinations_depth(chars, length, Append(current, chars[i])) :
                          i \in 1..Len(chars)}
         IN  IF None \in below THEN None
             ELSE Some(1 + SetMax({unwrap(d) : d \in below} \cup {0}))

\* The same for permute_helper; `used` lets it push each character once only
RECURSIVE permutations_depth(_, _, _, _)
permutations_depth(chars, length, current, used) ==
    IF str_len(current) = length THEN 1
    ELSE 1 + SetMax({permutations_depth(chars, length, Append(current, chars[i]), used \cup {i}) :
                        i \in (1..Len(chars)) \ used} \cup {0})

\* the nesting of one enumeration, as generate_combinations starts it
enumerate_depth(cfg, chars, length) ==
    IF cfg.permutations_only
    THEN (IF length > Len(chars) THEN Some(0) ELSE Some(permutations_depth(chars, length, <<>>, {})))
    ELSE combinations_depth(chars, length, <<>>)

\* char::is_numeric: the Unicode classes Nd, Nl, No (below U+0100: the ASCII
\* digits and the superscripts and fractions of Latin-1)
is_numeric(ch) == ch \in (48..57) \cup {178, 179, 185, 188, 189, 190}
is_ascii_digit(ch) == ch \in 48..57

RECURSIVE take_while_numeric(_)
take_while_numeric(s) ==
    IF s = <<>> \/ ~is_numeric(Head(s)) THEN <<>>
    ELSE <<Head(s)>> \o take_while_numeric(Tail(s))

RECURSIVE decimal(_)
decimal(s) == IF s = <<>> THEN 0 ELSE 10 * decimal(SubSeq(s, 1, Len(s) - 1)) + (s[Len(s)] - 48)

\* str::parse::<usize>().ok() on a string without a sign
parse_usize(s) ==
    IF s = <<>> \/ \E i \in 1..Len(s) : ~is_ascii_digit(s[i]) THEN None
    ELSE Some(decimal(s))

RECURSIVE dup_for(_, _, _, _)
\* the loop `for i in 1..chars.len()` from index i on (1-based here: i + 1)
dup_for(chars, limit, count, i) ==
    IF i > Len(chars) THEN TRUE
    ELSE IF chars[i] = chars[i - 1]
         THEN (IF count + 1 > limit THEN FALSE ELSE dup_for(chars, limit, count + 1, i + 1))
         ELSE dup_for(chars, limit, 1, i + 1)

check_duplicate_limit(token, limit_spec) ==
    LET parsed == parse_usize(take_while_numeric(limit_spec))
        limit == IF is_some(parsed) THEN unwrap(parsed) ELSE 1
    IN  dup_for(token, limit, 1, 2)

apply_duplicate_suppression(cfg, tokens) ==
    IF is_some(cfg.duplicate_limit)
    THEN SelectSeq(tokens, LAMBDA t : check_duplicate_limit(t, unwrap(cfg.duplicate_limit)))
    ELSE tokens

\* mutant: each token's characters reversed too
invert_tokens_chars(cfg, tokens) ==
    IF cfg.invert THEN [i \in 1..Len(tokens) |-> Reverse(tokens[Len(tokens) + 1 - i])] ELSE tokens

invert_tokens(cfg, tokens) == IF cfg.invert THEN Reverse(tokens) ELSE tokens

\* mutant: `<=` for `<`, the token equal to start is skipped too
skip_while_le(tokens, start_str) ==
    LET keep == {i \in 1..Len(tokens) : ~str_le(tokens[i], start_str)}
    IN  IF keep = {} THEN <<>> ELSE SubSeq(tokens, SetMin(keep), Len(tokens))

skip_while_lt(tokens, start_str) ==
    LET keep == {i \in 1..Len(tokens) : ~str_lt(tokens[i], start_str)}
    IN  IF keep = {} THEN <<>> ELSE SubSeq(tokens, SetMin(keep), Len(tokens))

take_while_le(tokens, end_str) ==
    LET stop == {i \in 1..Len(tokens) : ~str_le(tokens[i], end_str)}
    IN  IF stop = {} THEN tokens ELSE SubSeq(tokens, 1, SetMin(stop) - 1)

\* generate_combinations, lines 111-123: the enumeration of one length
enumerate(cfg, chars, length) ==
    IF cfg.permutations_only THEN Ok(generate_permutations(chars, length))
    ELSE generate_combinations_recursive(chars, length, <<>>)

\* generate_combinations, lines 125-136: the start/end filter
bound_tokens(enumerated, start, end) ==
    LET skipped == IF is_some(start) THEN skip_while_lt(enumerated, unwrap(start)) ELSE enumerated
    IN  IF is_some(end) THEN take_while_le(skipped, unwrap(end)) ELSE skipped

\* generate_combinations, lines 138-155: prefix/suffix, suppression, inversion
decorate(cfg, bounded) ==
    LET prefixed == IF is_some(cfg.prefix)
                    THEN [i \in 1..Len(bounded) |-> unwrap(cfg.prefix) \o bounded[i]]
                    ELSE bounded
        suffixed == IF is_some(cfg.suffix)
                    THEN [i \in 1..Len(prefixed) |-> prefixed[i] \o unwrap(cfg.suffix)]
                    ELSE prefixed
    IN  invert_tokens(cfg, apply_duplicate_suppression(cfg, suffixed))

\* The value of generate_combinations is .tokens; .enumerated and .bounded are
\* its local `tokens` after line 123 and after line 136.
generate_combinations(cfg, chars, length, start, end) ==
    LET e == enumerate(cfg, chars, length)
        bounded == bound_tokens(e.tokens, start, end)
    IN  [abort |-> e.abort,
         enumerated |-> e.tokens,
         bounded |-> IF e.abort THEN <<>> ELSE bounded,
         tokens |-> IF e.abort THEN <<>> ELSE decorate(cfg, bounded)]

truncate(v, n) == IF Len(v) > n THEN SubSeq(v, 1, n) ELSE v

\* mutant: `>` for `>=` in the test of max_lines
loop_body_gt(cfg, chars, length, acc) ==
    LET batch == generate_combinations(cfg, chars, length, cfg.start_string, cfg.end_string)
        extended == acc \o batch.tokens
        cut == is_some(cfg.max_lines) /\ Len(extended) > unwrap(cfg.max_lines)
    IN  [abort |-> batch.abort,
         batch |-> batch,
         tokens |-> IF batch.abort THEN acc
                    ELSE IF cut THEN truncate(extended, unwrap(cfg.max_lines))
                    ELSE extended,
         break |-> ~batch.abort /\ cut]

\* generate_from_charset, lines 89-97: the body of the loop over the lengths.
\* .batch is what generate_combinations gave, .break whether the loop ends.
loop_body(cfg, chars, length, acc) ==
    LET batch == generate_combinations(cfg, chars, length, cfg.start_string, cfg.end_string)
        extended == acc \o batch.tokens
        cut == is_some(cfg.max_lines) /\ Len(extended) >= unwrap(cfg.max_lines)
    IN  [abort |-> batch.abort,
         batch |-> batch,
         tokens |-> IF batch.abort THEN acc
                    ELSE IF cut THEN truncate(extended, unwrap(cfg.max_lines))
                    ELSE extended,
         break |-> ~batch.abort /\ cut]

RECURSIVE for_len(_, _, _, _)
\* `for len in min_length..=max_length`, from `length` on
for_len(cfg, chars, length, acc) ==
    IF length > cfg.max_length THEN Ok(acc)
    ELSE LET step == loop_body(cfg, chars, length, acc)
         IN  IF step.abort THEN Abort
             ELSE IF step.break THEN Ok(step.tokens)
             ELSE for_len(cfg, chars, length + 1, step.tokens)

\* generate_from_charset as a whole: what it returns, if it returns
generate_from_charset(cfg, chars) == for_len(cfg, chars, cfg.min_length, <<>>)

\* u64 arithmetic of calculate_combinations. No value of this model comes near
\* u64::MAX, where saturating_mul and saturating_pow stop growing.
saturating_sub(a, b) == IF a < b THEN 0 ELSE a - b
saturating_mul(a, b) == a * b
RECURSIVE saturating_pow(_, _)
saturating_pow(a, e) == IF e = 0 THEN 1 ELSE saturating_mul(a, saturating_pow(a, e - 1))

RECURSIVE perm_count(_, _, _, _)
\* `for i in 0..length { result = result * (charset_len - i) }` from i on
perm_count(charset_len, length, result, i) ==
    IF i >= length THEN result
    ELSE perm_count(charset_len, length, saturating_mul(result, saturating_sub(charset_len, i)), i + 1)

calculate_combinations(cfg, charset, length) ==
    LET charset_len == Len(charset)
    IN  IF cfg.permutations_only THEN perm_count(charset_len, length, 1, 0)
        ELSE saturating_pow(charset_len, length)


\* ------------------------------------------------------------- transforms.rs
\* LEET_MAP: for a lowercase letter, its substitutes in the order of the source
LEET_MAP ==
    (97 :> <<<<52>>, <<64>>>>) @@ (101 :> <<<<51>>, <<8364>>>>)
    @@ (105 :> <<<<49>>, <<33>>, <<124>>>>) @@ (111 :> <<<<48>>, <<40, 41>>>>)
    @@ (115 :> <<<<53>>, <<36>>, <<122>>>>) @@ (116 :> <<<<55>>, <<43>>>>)
    @@ (108 :> <<<<49>>, <<124>>>>) @@ (103 :> <<<<57>>, <<38>>, <<54>>>>)
    @@ (122 :> <<<<50>>, <<126>>>>) @@ (98 :> <<<<56>>, <<124, 51>>, <<223>>>>)
    @@ (120 :> <<<<42>>>>)

to_ascii_lowercase(ch) == IF ch \in 65..90 THEN ch + 32 ELSE ch

RECURSIVE leet_basic_for(_, _, _)
\* apply_leet_basic: `for ch in token.chars()` from the i-th character on
leet_basic_for(token, i, result) ==
    IF i > Len(token) THEN result
    ELSE IF to_ascii_lowercase(token[i]) \in DOMAIN LEET_MAP
         THEN leet_basic_for(token, i + 1, result \o LEET_MAP[to_ascii_lowercase(token[i])][1])
         ELSE leet_basic_for(token, i + 1, Append(result, token[i]))

apply_leet_basic(token) == ResultOk(leet_basic_for(token, 1, <<>>))

\* ---------------------------------------------- generator.rs, the pipeline
\* str::as_bytes: the UTF-8 encoding (characters below U+10000)
char_bytes(ch) ==
    IF ch < 128 THEN <<ch>>
    ELSE IF ch < 2048 THEN <<192 + (ch \div 64), 128 + (ch % 64)>>
    ELSE <<224 + (ch \div 4096), 128 + ((ch \div 64) % 64), 128 + (ch % 64)>>

RECURSIVE as_bytes(_)
as_bytes(s) == IF s = <<>> THEN <<>> ELSE char_bytes(Head(s)) \o as_bytes(Tail(s))

\* hash_token: DefaultHasher over the token's bytes. The 64-bit value is taken
\* to be different for different byte strings, so it stands for the bytes.
hash_token(token) == as_bytes(token)

RECURSIVE dedup_loop(_, _, _, _)
\* `for token in tokens` from the i-th token on
dedup_loop(tokens, i, seen, unique) ==
    IF i > Len(tokens) THEN unique
    ELSE LET hash == hash_token(tokens[i])
         IN  IF hash \notin seen
             THEN dedup_loop(tokens, i + 1, seen \cup {hash}, Append(unique, tokens[i]))
             ELSE dedup_loop(tokens, i + 1, seen, unique)

\* mutant: the last occurrence of a token is the one kept
deduplicate_last(tokens) == Reverse(dedup_loop(Reverse(tokens), 1, {}, <<>>))

deduplicate(tokens) == dedup_loop(tokens, 1, {}, <<>>)

\* parse_transform: the names that resolve to a Transform (named here by the
\* name itself); None for the Err(TransformError) of every other name
TransformNames == {"leet_basic", "leet_full", "leet_random", "reverse", "toggle_case",
                   "upper", "lower", "capitalize", "homoglyph", "emoji", "keyboard_shift"}
parse_transform(name) == IF name \in TransformNames THEN Some(name) ELSE None

\* char::to_uppercase and char::to_lowercase, for characters below U+0100
char_to_uppercase(ch) ==
    IF ch \in 97..122 THEN <<ch - 32>>
    ELSE IF ch \in (224..254) \ {247} THEN <<ch - 32>>
    ELSE IF ch = 223 THEN <<83, 83>>
    ELSE IF ch = 255 THEN <<376>>
    ELSE IF ch = 181 THEN <<924>>
    ELSE <<ch>>

char_to_lowercase(ch) ==
    IF ch \in 65..90 THEN <<ch + 32>>
    ELSE IF ch \in (192..222) \ {215} THEN <<ch + 32>>
    ELSE <<ch>>

RECURSIVE to_uppercase(_)
to_uppercase(s) == IF s = <<>> THEN <<>> ELSE char_to_uppercase(Head(s)) \o to_uppercase(Tail(s))

RECURSIVE to_lowercase(_)
to_lowercase(s) == IF s = <<>> THEN <<>> ELSE char_to_lowercase(Head(s)) \o to_lowercase(Tail(s))

capitalize(s) == IF s = <<>> THEN <<>> ELSE char_to_uppercase(Head(s)) \o Tail(s)

\* transforms.rs apply_transform, for the transforms the model's configs name
apply_transform(token, transform) ==
    CASE transform = "leet_basic" -> apply_leet_basic(token).value
      [] transform = "reverse" -> Reverse(token)
      [] transform = "upper" -> to_uppercase(token)
      [] transform = "lower" -> to_lowercase(token)
      [] transform = "capitalize" -> capitalize(token)

RECURSIVE pipeline_apply(_, _, _, _)
\* TransformPipeline::apply: `for transform in &self.transforms` from the i-th
\* on; .calls lists the calls of apply_transform made, as <<transform, token>>
pipeline_apply(transforms, i, result, calls) ==
    IF i > Len(transforms) THEN [value |-> result, calls |-> calls]
    ELSE pipeline_apply(transforms, i + 1, apply_transform(result, transforms[i]),
                        Append(calls, <<transforms[i], result>>))

RECURSIVE apply_all(_, _, _, _, _)
\* TransformPipeline::apply_all: apply mapped over the tokens from the i-th on
apply_all(transforms, tokens, i, out, calls) ==
    IF i > Len(tokens) THEN [value |-> out, calls |-> calls]
    ELSE LET r == pipeline_apply(transforms, 1, tokens[i], <<>>)
         IN  apply_all(transforms, tokens, i + 1, Append(out, r.value), calls \o r.calls)

RECURSIVE parse_for(_, _, _)
\* apply_transforms, lines 254-257: the pipeline built name by name,
\* `?` returning at the first name parse_transform rejects
parse_for(names, i, pipeline) ==
    IF i > Len(names) THEN ResultOk(pipeline)
    ELSE LET transform == parse_transform(names[i])
         IN  IF is_some(transform) THEN parse_for(names, i + 1, Append(pipeline, unwrap(transform)))
             ELSE ResultErr("TransformError")

RECURSIVE known_prefix(_)
known_prefix(names) ==
    IF names = <<>> \/ ~is_some(parse_transform(Head(names))) THEN <<>>
    ELSE <<Head(names)>> \o known_prefix(Tail(names))

\* mutant: each transform is run over the tokens as soon as its name is parsed
apply_transforms_eager(cfg, tokens) ==
    LET parsed == parse_for(cfg.transforms, 1, <<>>)
        done == apply_all(known_prefix(cfg.transforms), tokens, 1, <<>>, <<>>)
    IN  IF parsed.ok THEN [ok |-> TRUE, error |-> "none", value |-> done.value, calls |-> done.calls]
        ELSE [ok |-> FALSE, error |-> parsed.error, value |-> <<>>, calls |-> done.calls]

\* apply_transforms: .value is the Vec it returns, .calls the calls of
\* apply_transform it has made when it returns
apply_transforms(cfg, tokens) ==
    LET parsed == parse_for(cfg.transforms, 1, <<>>)
    IN  IF parsed.ok
        THEN LET done == apply_all(parsed.value, tokens, 1, <<>>, <<>>)
             IN  [ok |-> TRUE, error |-> "none", value |-> done.value, calls |-> done.calls]
        ELSE [ok |-> FALSE, error |-> parsed.error, value |-> <<>>, calls |-> <<>>]

\* ---------------------------------------------------------------- filters.rs
\* A FilterChain is the sequence of its predicates; a predicate is named by
\* the add_* that pushed it and carries what the closure captured.
add_length(chain, min, max) ==
    Append(chain, [kind |-> "length", lo |-> min, hi |-> max, chars |-> <<>>])
add_charset(chain, allowed) ==
    Append(chain, [kind |-> "charset", lo |-> 0, hi |-> 0, chars |-> allowed])
add_exclude_charset(chain, forbidden) ==
    Append(chain, [kind |-> "exclude_charset", lo |-> 0, hi |-> 0, chars |-> forbidden])
add_no_repeats(chain, max_repeats) ==
    Append(chain, [kind |-> "no_repeats", lo |-> 0, hi |-> max_repeats, chars |-> <<>>])

usize_max(a, b) == IF a >= b THEN a ELSE b

RECURSIVE no_repeats_for(_, _, _, _, _)
\* add_no_repeats: `for ch in s.chars()` from the i-th character on; the value
\* is max_consecutive after line 77
no_repeats_for(s, i, max_consecutive, current_consecutive, prev_char) ==
    IF i > Len(s) THEN usize_max(max_consecutive, current_consecutive)
    ELSE IF s[i] = prev_char
         THEN no_repeats_for(s, i + 1, max_consecutive, current_consecutive + 1, prev_char)
         ELSE no_repeats_for(s, i + 1, usize_max(max_consecutive, current_consecutive), 1, s[i])

\* the closure an add_* pushed, called on a token
filter_call(f, s) ==
    CASE f.kind = "length" -> str_len(s) >= f.lo /\ str_len(s) <= f.hi
      [] f.kind = "charset" -> \A i \in 1..Len(s) : s[i] \in Range(f.chars)
      [] f.kind = "exclude_charset" -> ~(\E i \in 1..Len(s) : s[i] \in Range(f.chars))
      [] f.kind = "no_repeats" -> no_repeats_for(s, 1, 0, 1, 32) <= f.hi

\* FilterChain::apply and apply_batch
apply(chain, token) == \A i \in 1..Len(chain) : filter_call(chain[i], token)
apply_batch(chain, tokens) == SelectSeq(tokens, LAMBDA t : apply(chain, t))

\* generator.rs apply_filters
apply_filters(cfg, tokens) ==
    LET with_length == IF is_some(cfg.filters.min_len) /\ is_some(cfg.filters.max_len)
                       THEN add_length(<<>>, unwrap(cfg.filters.min_len), unwrap(cfg.filters.max_len))
                       ELSE <<>>
        filter_chain == IF is_some(cfg.filters.charset_filter)
                        THEN add_charset(with_length, unwrap(cfg.filters.charset_filter))
                        ELSE with_length
    IN  apply_batch(filter_chain, tokens)

\* ---------------------------------------------------------------- storage.rs
\* The file system is a function from paths to None (no file) or Some(content).
\* What write_tokens leaves in a file is [codec, data]: the bytes handed to the
\* encoder, and the encoder they went through ("none" for a plain file).
SupportedCodecs == {"gzip", "bzip2", "lz4", "zstd"}

RECURSIVE write_plain_joined(_, _)
\* mutant: '\n' between the tokens, none after the last
write_plain_joined(writer, tokens) ==
    IF tokens = <<>> THEN writer
    ELSE IF Len(tokens) = 1 THEN writer \o as_bytes(Head(tokens))
    ELSE write_plain_joined(writer \o as_bytes(Head(tokens)) \o <<10>>, Tail(tokens))

RECURSIVE write_plain(_, _)
\* `for token in tokens { writeln!(writer, "{}", token)? }`
write_plain(writer, tokens) ==
    IF tokens = <<>> THEN writer
    ELSE write_plain(writer \o as_bytes(Head(tokens)) \o <<10>>, Tail(tokens))

\* write_gzipped, write_bzip2, write_lz4, write_zstd: the same lines, through
\* the encoder
write_encoded(writer, tokens) == write_plain(writer, tokens)

\* write_tokens: .fs is the file system it leaves, .result what it returns
write_tokens(files, output_path, compression, tokens) ==
    LET created == [files EXCEPT ![output_path] = Some([codec |-> "none", data |-> <<>>])]
    IN  IF compression = None
        THEN [fs |-> [created EXCEPT ![output_path] =
                         Some([codec |-> "none", data |-> write_plain(<<>>, tokens)])],
              result |-> ResultOk(<<>>)]
        ELSE IF unwrap(compression) \in SupportedCodecs
        THEN [fs |-> [created EXCEPT ![output_path] =
                         Some([codec |-> unwrap(compression), data |-> write_encoded(<<>>, tokens)])],
              result |-> ResultOk(<<>>)]
        ELSE [fs |-> created, result |-> ResultErr("StorageError")]

\* CheckpointState::new and update; `now` is Local::now().to_rfc3339()
CheckpointState_new(job_id, cfg, now) ==
    [job_id |-> job_id, timestamp |-> now, config |-> cfg, last_token |-> None,
     tokens_generated |-> 0, current_length |-> 0, start_index |-> 0]

\* mutant: tokens_generated taken from the index
CheckpointState_update_indexed(state, token, index, now) ==
    [state EXCEPT !.last_token = Some(token),
                  !.tokens_generated = index + 1,
                  !.start_index = index,
                  !.timestamp = now]

CheckpointState_update(state, token, index, now) ==
    [state EXCEPT !.last_token = Some(token),
                  !.tokens_generated = state.tokens_generated + 1,
                  !.start_index = index,
                  !.timestamp = now]

\* mutant: one file for every job
checkpoint_path_shared(checkpoint_dir, job_id) == <<checkpoint_dir, "j1", "json">>

\* checkpoint_dir.join(format!("{}.json", job_id))
checkpoint_path(checkpoint_dir, job_id) == <<checkpoint_dir, job_id, "json">>

\* serde_json::to_string_pretty of a CheckpointState: the text as the sequence
\* of its pieces, the braces and one "key": value member per field
CheckpointFields == <<"job_id", "timestamp", "config", "last_token", "tokens_generated",
                      "current_length", "start_index">>

to_string_pretty(state) ==
    <<<<"{">>>> \o [i \in 1..Len(CheckpointFields) |-> <<CheckpointFields[i], state[CheckpointFields[i]]>>]
        \o <<<<"}">>>>

\* serde_json::from_str::<CheckpointState>: every field is required, and a
\* text that ends before its closing brace is an error
from_str(content) ==
    IF /\ Len(content) = Len(CheckpointFields) + 2
       /\ content[1] = <<"{">>
       /\ content[Len(content)] = <<"}">>
       /\ \A i \in 1..Len(CheckpointFields) : content[i + 1][1] = CheckpointFields[i]
    THEN ResultOk([f \in Range(CheckpointFields) |->
                      content[1 + CHOOSE i \in 1..Len(CheckpointFields) : CheckpointFields[i] = f][2]])
    ELSE ResultErr("SerializationError")

\* load_checkpoint: Ok(None), Ok(Some(state)) or the error of from_str
load_checkpoint(files, checkpoint_dir, job_id) ==
    LET path == checkpoint_path(checkpoint_dir, job_id)
    IN  IF files[path] = None THEN ResultOk(None)
        ELSE LET state == from_str(unwrap(files[path]))
             IN  IF state.ok THEN ResultOk(Some(state.value)) ELSE state

\* delete_checkpoint: the file system it leaves
delete_checkpoint(files, checkpoint_dir, job_id) ==
    LET path == checkpoint_path(checkpoint_dir, job_id)
    IN  IF files[path] # None THEN [files EXCEPT ![path] = None] ELSE files

\* JobStatus, by the name of the variant (the message of Failed left out)
JobStatus == {"Pending", "Running", "Completed", "Failed", "Paused"}

\* jobs_dir.join(format!("{}.json", job.job_id))
job_path(jobs_dir, job_id) == <<jobs_dir, job_id, "json">>

\* save_job: the file system it leaves; the file holds the metadata given
save_job(files, jobs_dir, job) ==
    [files EXCEPT ![job_path(jobs_dir, job.job_id)] = Some(job)]

\* load_job: Ok(None) or Ok(Some(job))
load_job(files, jobs_dir, job_id) ==
    LET path == job_path(jobs_dir, job_id)
    IN  IF files[path] = None THEN ResultOk(None) ELSE ResultOk(files[path])

\* ----------------------------------------------------------------- fields.rs
\* FIELD_CATALOG, the fields the built-in presets enable: id -> examples
\* ("Aaryan", "Bansal", "dev_guru", "drake", "twitter", "qwerty" and the five
\* smiling emojis)
FIELD_CATALOG ==
    [id \in {"first_name_male_0", "last_name_0", "dev_handle_0", "meme_format_0",
             "social_platform_0", "keyboard_walk_0", "emoji_smile_0"} |->
        CASE id = "first_name_male_0" -> <<<<65, 97, 114, 121, 97, 110>>>>
          [] id = "last_name_0" -> <<<<66, 97, 110, 115, 97, 108>>>>
          [] id = "dev_handle_0" -> <<<<100, 101, 118, 95, 103, 117, 114, 117>>>>
          [] id = "meme_format_0" -> <<<<100, 114, 97, 107, 101>>>>
          [] id = "social_platform_0" -> <<<<116, 119, 105, 116, 116, 101, 114>>>>
          [] id = "keyboard_walk_0" -> <<<<113, 119, 101, 114, 116, 121>>>>
          [] id = "emoji_smile_0" -> <<<<128512>>, <<128515>>, <<128516>>, <<128513>>, <<128518>>>>]

\* FieldManager::get_field, its examples
get_field(id) == IF id \in DOMAIN FIELD_CATALOG THEN Some(FIELD_CATALOG[id]) ELSE None

\* generate_fields, lines 69-73: every existing token followed by every example
product(existing, field_tokens) ==
    [k \in 1..(Len(existing) * Len(field_tokens)) |->
        existing[((k - 1) \div Len(field_tokens)) + 1] \o field_tokens[((k - 1) % Len(field_tokens)) + 1]]

RECURSIVE fields_for(_, _, _)
\* `for field_id in &self.config.enabled_fields` from the i-th id on
fields_for(enabled_fields, i, acc) ==
    IF i > Len(enabled_fields) THEN acc
    ELSE LET field == get_field(enabled_fields[i])
         IN  IF is_some(field) THEN fields_for(enabled_fields, i + 1, product(acc, unwrap(field)))
             ELSE fields_for(enabled_fields, i + 1, acc)

generate_fields(cfg) ==
    IF cfg.enabled_fields = <<>> THEN ResultErr("ConfigError")
    ELSE ResultOk(fields_for(cfg.enabled_fields, 1, <<<<>>>>))

\* ------------------------------------------------------------- the inputs
\* "", "ab", "ba", "aa", "abc", and charsets of two-byte characters
CharsetStrings == {<<>>, <<97, 98>>, <<98, 97>>, <<97, 97>>, <<97, 98, 99>>,
                   <<233>>, <<233, 252>>}
StartStrings == {None, Some(<<98>>), Some(<<98, 97>>)}
EndStrings == {None, Some(<<98, 98>>)}
Prefixes == {None, Some(<<97>>)}
Suffixes == {None, Some(<<98>>)}
\* "1", "2@"
DuplicateLimits == {None, Some(<<49>>), Some(<<50, 64>>)}
LineLimits == {None} \cup {Some(n) : n \in 0..MaxLines}

\* every option unset, as in Config::default(), with the lengths given
\* FilterConfig::default(), with the fields apply_filters reads
DefaultFilterConfig == [min_len |-> None, max_len |-> None, charset_filter |-> None]

DefaultConfig(min, max) ==
    [min_length |-> min, max_length |-> max, charset |-> None,
     start_string |-> None, end_string |-> None, max_lines |-> None,
     duplicate_limit |-> None, permutations_only |-> FALSE, invert |-> FALSE,
     prefix |-> None, suffix |-> None,
     pattern |-> None, literal_chars |-> None, transforms |-> <<>>,
     filters |-> DefaultFilterConfig, dedupe |-> TRUE,
     enabled_fields |-> <<>>, checkpoint_dir |-> None]

\* The configs of the model: a custom charset with every combination of the
\* options and the lengths validate accepts; with the options unset, the
\* default charset at length 1 and the charset "ab" at every pair of lengths,
\* those validate rejects included.
Configs ==
    {DefaultConfig(1, 1)}
    \cup
    {[DefaultConfig(min, max) EXCEPT !.charset = Some(<<97, 98>>)] :
        min \in 0..MaxLen, max \in 0..MaxLen}
    \cup
    [min_length : 1..MaxLen, max_length : 1..MaxLen,
     charset : {Some(s) : s \in CharsetStrings},
     start_string : StartStrings, end_string : EndStrings,
     max_lines : LineLimits, duplicate_limit : DuplicateLimits,
     permutations_only : BOOLEAN, invert : BOOLEAN,
     prefix : Prefixes, suffix : Suffixes,
     pattern : {None}, literal_chars : {None}, transforms : {<<>>},
     filters : {DefaultFilterConfig}, dedupe : {TRUE},
     enabled_fields : {<<>>}, checkpoint_dir : {None}]

\* --------------------------------------------------------------- the state
VARIABLES
    config,      \* the Config handed to Generator::new
    pc,          \* "new", "config_error", "ready", "generating", "done", "stack_overflow"
    charset,     \* generate_charset: the resolved charset
    len,         \* generate_from_charset: the loop variable
    tokens,      \* generate_from_charset: the Vec being built, returned when done
    enumerated,  \* generate_combinations of the last length: `tokens` after line 123
    bounded,     \* generate_combinations of the last length: `tokens` after line 136
    len_tokens,  \* generate_combinations of the last length: its value
    lens,        \* the lengths enumerated so far, in order
    status,      \* show_status_info: the combinations it computed per length, if it ran
    dup_check,   \* a call of check_duplicate_limit: its arguments and, once made, its value
    entry,       \* the entry point running: "generate_charset", "generate_full_pipeline", "run_generation"
    applied,     \* apply_transforms: the calls of apply_transform it made
    dedup_calls, \* the calls of deduplicate made so far: argument and value
    pattern_call,\* a call of expand_pattern: its arguments and, once made, its value
    filter_run,  \* a FilterChain, the tokens given to apply_batch and, once called, its value
    fs,          \* the file system: path -> None or Some(content)
    write_call,  \* the last call of write_tokens: arguments, the file before it, its value
    saving,      \* the save_checkpoint in progress: what fs::write has still to write
    loaded,      \* the last load_checkpoint, if nothing has touched the files since
    history,     \* per job id, the last save or delete and how it ended
    job_log,     \* per job id, the statuses save_job has stored for it, in order
    leet_call,   \* a call of apply_leet_basic: its argument and, once made, its value
    checkpoint_state, \* a CheckpointState, from CheckpointState::new on
    updates,     \* the calls made on checkpoint_state: new, then each update
    run,         \* the number of the process running the job: 1, and 2 after a restart
    delivered    \* the tokens printed so far, each with the run that printed it

pipelineVars == <<entry, applied>>
sessionVars == <<job_log, leet_call, checkpoint_state, updates, run, delivered>>
libraryVars == <<dedup_calls, pattern_call, filter_run, fs, write_call, saving, loaded, history,
                 sessionVars>>

vars == <<config, pc, charset, len, tokens, enumerated, bounded, len_tokens, lens, status,
          dup_check, pipelineVars, libraryVars>>

\* no call made yet of the functions that are called on their own
DedupIdle == dedup_calls = <<>>
PatternIdle == pattern_call = [pattern |-> <<>>, literal_markers |-> None, result |-> None]
FilterIdle == filter_run = [chain |-> <<>>, tokens |-> <<>>, result |-> None]
StorageIdle == fs = <<>> /\ write_call = None
CheckpointIdle == saving = None /\ loaded = None /\ history = <<>>
JobIdle == job_log = <<>>
LeetIdle == leet_call = [token |-> <<>>, result |-> None]
UpdateIdle == checkpoint_state = None /\ updates = <<>>
ResumeIdle == run = 1 /\ delivered = <<>>
SessionIdle == JobIdle /\ LeetIdle /\ UpdateIdle /\ ResumeIdle
LibraryIdle ==
    DedupIdle /\ PatternIdle /\ FilterIdle /\ StorageIdle /\ CheckpointIdle /\ SessionIdle
DupIdle == dup_check = [token |-> <<>>, limit_spec |-> <<>>, result |-> None]

\* a Generator not yet constructed, nothing generated
GeneratorStart ==
    /\ pc = "new"
    /\ charset = <<>>
    /\ len = 0
    /\ tokens = <<>>
    /\ enumerated = <<>>
    /\ bounded = <<>>
    /\ len_tokens = <<>>
    /\ lens = <<>>
    /\ status = None
    /\ applied = <<>>

GeneratorIdle == config = DefaultConfig(1, 1) /\ entry = "generate_charset" /\ GeneratorStart

Init ==
    /\ config \in Configs
    /\ pc = "new"
    /\ charset = <<>>
    /\ len = 0
    /\ tokens = <<>>
    /\ enumerated = <<>>
    /\ bounded = <<>>
    /\ len_tokens = <<>>
    /\ lens = <<>>
    /\ status = None
    /\ dup_check = [token |-> <<>>, limit_spec |-> <<>>, result |-> None]
    /\ entry = "generate_charset"
    /\ applied = <<>>
    /\ LibraryIdle

\* Generator::new
New ==
    /\ pc = "new"
    /\ pc' = IF validate(config) THEN "ready" ELSE "config_error"
    /\ UNCHANGED <<config, charset, len, tokens, enumerated, bounded, len_tokens, lens, status,
                   dup_check, pipelineVars, libraryVars>>

\* run_generation with show_status: show_status_info on the resolved charset
ShowStatus ==
    /\ pc = "ready"
    /\ status = None
    /\ status' = Some([l \in config.min_length..config.max_length |->
                          calculate_combinations(config, resolve_charset(config), l)])
    /\ UNCHANGED <<config, pc, charset, len, tokens, enumerated, bounded, len_tokens, lens,
                   dup_check, pipelineVars, libraryVars>>

\* generate_charset, up to the loop of generate_from_charset; run_generation
\* calls it when the config has no pattern and no enabled field
Begin ==
    /\ pc = "ready"
    /\ entry = "run_generation" => (config.pattern = None /\ config.enabled_fields = <<>>)
    /\ pc' = "generating"
    /\ charset' = resolve_charset(config)
    /\ len' = config.min_length
    /\ tokens' = <<>>
    /\ UNCHANGED <<config, enumerated, bounded, len_tokens, lens, status, dup_check,
                   pipelineVars, libraryVars>>

\* one iteration of `for len in min_length..=max_length`; after the last one,
\* or on break, generate_from_charset returns `tokens`
GenerateLength ==
    /\ pc = "generating"
    /\ len <= config.max_length
    /\ lens' = Append(lens, len)
    /\ LET step == loop_body(config, charset, len, tokens)
       IN  /\ enumerated' = step.batch.enumerated
           /\ bounded' = step.batch.bounded
           /\ len_tokens' = step.batch.tokens
           /\ tokens' = step.tokens
           /\ pc' = IF step.abort THEN "stack_overflow"
                    ELSE IF step.break \/ len = config.max_length THEN "done"
                    ELSE "generating"
           /\ len' = IF step.abort \/ step.break THEN len ELSE len + 1
    /\ UNCHANGED <<config, charset, status, dup_check, pipelineVars, libraryVars>>

Next == New \/ ShowStatus \/ Begin \/ GenerateLength

Spec == Init /\ [][Next]_vars

\* check_duplicate_limit on its own: every token of up to MaxToken characters
\* over "ab", against the limit specifiers "", "0", "1", "2", "2@", "@@", "10"
\* and "2" followed by a superscript two
DupTokens == UNION {[1..n -> {97, 98}] : n \in 0..MaxToken}
DupLimitSpecs == {<<>>, <<48>>, <<49>>, <<50>>, <<50, 64>>, <<64, 64>>, <<49, 48>>, <<50, 178>>}

DupInit ==
    /\ config = DefaultConfig(1, 1)
    /\ pc = "new"
    /\ charset = <<>>
    /\ len = 0
    /\ tokens = <<>>
    /\ enumerated = <<>>
    /\ bounded = <<>>
    /\ len_tokens = <<>>
    /\ lens = <<>>
    /\ status = None
    /\ dup_check \in [token : DupTokens, limit_spec : DupLimitSpecs, result : {None}]
    /\ entry = "generate_charset"
    /\ applied = <<>>
    /\ LibraryIdle

CheckDuplicateLimit ==
    /\ dup_check.result = None
    /\ dup_check' = [dup_check EXCEPT
                        !.result = Some(check_duplicate_limit(dup_check.token, dup_check.limit_spec))]
    /\ UNCHANGED <<config, pc, charset, len, tokens, enumerated, bounded, len_tokens, lens, status,
                   pipelineVars, libraryVars>>

DupNext == CheckDuplicateLimit

DupSpec == DupInit /\ [][DupNext]_vars

\* Generator::new on its own, around the limits validate tests
ConfigLengths == {0, 1, 2, 3, 999, 1000, 1001, 1002}
LengthConfigs ==
    {[DefaultConfig(min, max) EXCEPT !.charset = Some(<<97, 98>>)] :
        min \in ConfigLengths, max \in ConfigLengths}

ValidateInit ==
    /\ config \in LengthConfigs
    /\ entry = "generate_charset"
    /\ GeneratorStart
    /\ DupIdle
    /\ LibraryIdle

ValidateNext == New

ValidateSpec == ValidateInit /\ [][ValidateNext]_vars

\* generate_full_pipeline and run_generation (up to apply_filters; what
\* run_generation writes is write_tokens, below). The charsets "ab", "aA" and
\* "aba", the default charset, and the patterns "xx", "%" and "x%", with "%"
\* a literal or not; the transform lists of up to two names, "bogus" being no
\* transform; filters unset, length 1..1, length from 2, length up to 1 and the
\* charset "aA".
PipeCharsets == {<<97, 98>>, <<97, 65>>, <<97, 98, 97>>}
PipePatterns == {<<120, 120>>, <<37>>, <<120, 37>>}
PipeTransformNames == {"reverse", "upper", "capitalize", "bogus"}
PipeTransforms == UNION {[1..n -> PipeTransformNames] : n \in 0..2}
PipeFilters ==
    {DefaultFilterConfig,
     [min_len |-> Some(1), max_len |-> Some(1), charset_filter |-> None],
     [min_len |-> Some(2), max_len |-> None, charset_filter |-> None],
     [min_len |-> None, max_len |-> Some(1), charset_filter |-> None],
     [min_len |-> None, max_len |-> None, charset_filter |-> Some(<<97, 65>>)]}

PipeSources ==
    {[DefaultConfig(1, max) EXCEPT !.charset = Some(c)] : c \in PipeCharsets, max \in 1..MaxLen}
    \cup {DefaultConfig(1, 1)}
    \cup {[DefaultConfig(0, 1) EXCEPT !.charset = Some(<<97, 98>>)]}
    \cup {[DefaultConfig(1, 1) EXCEPT !.pattern = Some(p), !.literal_chars = l] :
            p \in PipePatterns, l \in {None, Some(<<37>>)}}

PipeConfigs ==
    {[c EXCEPT !.transforms = t, !.filters = f, !.dedupe = d] :
        c \in PipeSources, t \in PipeTransforms, f \in PipeFilters, d \in BOOLEAN}

PipeInit ==
    /\ config \in PipeConfigs
    /\ entry \in {"generate_full_pipeline", "run_generation"}
    /\ GeneratorStart
    /\ DupIdle
    /\ LibraryIdle

\* run_generation, config.pattern set: generate_pattern, up to the loop of
\* generate_from_charset
BeginPattern ==
    /\ pc = "ready"
    /\ entry = "run_generation"
    /\ config.pattern # None
    /\ pc' = "generating"
    /\ charset' = expand_pattern(unwrap(config.pattern), config.literal_chars).value
    /\ len' = config.min_length
    /\ tokens' = <<>>
    /\ UNCHANGED <<config, enumerated, bounded, len_tokens, lens, status, dup_check,
                   pipelineVars, libraryVars>>

\* generate_full_pipeline, lines 304-306
PipelineDedupe ==
    /\ pc = "done"
    /\ entry = "generate_full_pipeline"
    /\ tokens' = IF config.dedupe THEN deduplicate(tokens) ELSE tokens
    /\ pc' = "deduplicated"
    /\ UNCHANGED <<config, charset, len, enumerated, bounded, len_tokens, lens, status, dup_check,
                   pipelineVars, libraryVars>>

\* generate_full_pipeline, line 308; run_generation, lines 420-424, which
\* calls apply_transforms only for a transform list that is not empty
ApplyTransforms ==
    /\ \/ pc = "deduplicated"
       \/ pc = "done" /\ entry = "run_generation"
    /\ IF entry = "run_generation" /\ config.transforms = <<>>
       THEN pc' = "transformed" /\ UNCHANGED <<tokens, applied>>
       ELSE LET r == apply_transforms(config, tokens)
            IN  /\ applied' = r.calls
                /\ IF r.ok THEN pc' = "transformed" /\ tokens' = r.value
                   ELSE pc' = "transform_error" /\ UNCHANGED tokens
    /\ UNCHANGED <<config, charset, len, enumerated, bounded, len_tokens, lens, status, dup_check,
                   entry, libraryVars>>

\* generate_full_pipeline, line 309; run_generation, line 430
ApplyFilters ==
    /\ pc = "transformed"
    /\ tokens' = apply_filters(config, tokens)
    /\ pc' = "filtered"
    /\ UNCHANGED <<config, charset, len, enumerated, bounded, len_tokens, lens, status, dup_check,
                   pipelineVars, libraryVars>>

PipeNext ==
    New \/ Begin \/ BeginPattern \/ GenerateLength \/ PipelineDedupe \/ ApplyTransforms \/ ApplyFilters

PipeSpec == PipeInit /\ [][PipeNext]_vars

\* deduplicate called again and again on one Generator: every list of up to
\* MaxList tokens out of "x" and "y"
MaxCalls == 2
MaxList == 3
DedupInputs == UNION {[1..n -> {<<120>>, <<121>>}] : n \in 0..MaxList}

DedupInit ==
    /\ GeneratorIdle
    /\ DupIdle
    /\ dedup_calls = <<>>
    /\ PatternIdle /\ FilterIdle /\ StorageIdle /\ CheckpointIdle /\ SessionIdle

Deduplicate ==
    /\ Len(dedup_calls) < MaxCalls
    /\ \E ts \in DedupInputs :
          dedup_calls' = Append(dedup_calls, [tokens |-> ts, unique |-> deduplicate(ts)])
    /\ UNCHANGED <<config, pc, charset, len, tokens, enumerated, bounded, len_tokens, lens, status,
                   dup_check, pipelineVars, pattern_call, filter_run, fs, write_call, saving,
                   loaded, history, sessionVars>>

DedupNext == Deduplicate

DedupSpec == DedupInit /\ [][DedupNext]_vars

\* expand_pattern on its own: the patterns of up to MaxPattern characters out
\* of the six markers and 'x', with no literal set, and with "@" and "x%" as it
MaxPattern == 2
PatternChars == PATTERN_MARKERS \cup {120}
Patterns == UNION {[1..n -> PatternChars] : n \in 0..MaxPattern}
LiteralMarkers == {None, Some(<<64>>), Some(<<120, 37>>)}

PatternInit ==
    /\ GeneratorIdle
    /\ DupIdle
    /\ pattern_call \in [pattern : Patterns, literal_markers : LiteralMarkers, result : {None}]
    /\ DedupIdle /\ FilterIdle /\ StorageIdle /\ CheckpointIdle /\ SessionIdle

ExpandPattern ==
    /\ pattern_call.result = None
    /\ pattern_call' = [pattern_call EXCEPT
                           !.result = Some(expand_pattern(pattern_call.pattern,
                                                          pattern_call.literal_markers))]
    /\ UNCHANGED <<config, pc, charset, len, tokens, enumerated, bounded, len_tokens, lens, status,
                   dup_check, pipelineVars, dedup_calls, filter_run, fs, write_call, saving,
                   loaded, history, sessionVars>>

PatternNext == ExpandPattern

PatternSpec == PatternInit /\ [][PatternNext]_vars

\* FilterChain::apply_batch on its own: the chains of up to MaxChain predicates
\* out of length(1, 1), length(2, 3), charset("ab"), exclude_charset("b"),
\* no_repeats(1) and no_repeats(0); the lists of up to two tokens out of "",
\* "a", "ab", "aa", e-acute, " " and " a"
MaxChain == 2
FilterPredicates ==
    {add_length(<<>>, 1, 1)[1], add_length(<<>>, 2, 3)[1], add_charset(<<>>, <<97, 98>>)[1],
     add_exclude_charset(<<>>, <<98>>)[1], add_no_repeats(<<>>, 1)[1],
     add_no_repeats(<<>>, 0)[1]}
FilterChains == UNION {[1..n -> FilterPredicates] : n \in 0..MaxChain}
FilterTokens == {<<>>, <<97>>, <<97, 98>>, <<97, 97>>, <<233>>, <<32>>, <<32, 97>>}
FilterInputs == UNION {[1..n -> FilterTokens] : n \in 0..2}

FilterInit ==
    /\ GeneratorIdle
    /\ DupIdle
    /\ filter_run \in [chain : FilterChains, tokens : FilterInputs, result : {None}]
    /\ DedupIdle /\ PatternIdle /\ StorageIdle /\ CheckpointIdle /\ SessionIdle

ApplyBatch ==
    /\ filter_run.result = None
    /\ filter_run' = [filter_run EXCEPT
                         !.result = Some(apply_batch(filter_run.chain, filter_run.tokens))]
    /\ UNCHANGED <<config, pc, charset, len, tokens, enumerated, bounded, len_tokens, lens, status,
                   dup_check, pipelineVars, dedup_calls, pattern_call, fs, write_call, saving,
                   loaded, history, sessionVars>>

FilterNext == ApplyBatch

FilterSpec == FilterInit /\ [][FilterNext]_vars

\* write_tokens, again and again on one output path: the lists of up to
\* MaxWrite tokens out of "", "a" and e-acute, written plain, through gzip, or
\* with the compression "rar"
MaxWrite == 2
OutputPaths == {"out.txt"}
StorageTokens == {<<>>, <<97>>, <<233>>}
StorageInputs == UNION {[1..n -> StorageTokens] : n \in 0..MaxWrite}
Compressions == {None, Some("gzip"), Some("rar")}

StorageInit ==
    /\ GeneratorIdle
    /\ DupIdle
    /\ fs = [p \in OutputPaths |-> None]
    /\ write_call = None
    /\ DedupIdle /\ PatternIdle /\ FilterIdle /\ CheckpointIdle /\ SessionIdle

WriteTokens ==
    /\ \E p \in OutputPaths, c \in Compressions, ts \in StorageInputs :
          LET r == write_tokens(fs, p, c, ts)
          IN  /\ fs' = r.fs
              /\ write_call' = Some([output_path |-> p, compression |-> c, tokens |-> ts,
                                     before |-> fs[p], result |-> r.result])
    /\ UNCHANGED <<config, pc, charset, len, tokens, enumerated, bounded, len_tokens, lens, status,
                   dup_check, pipelineVars, dedup_calls, pattern_call, filter_run, saving,
                   loaded, history, sessionVars>>

StorageNext == WriteTokens

StorageSpec == StorageInit /\ [][StorageNext]_vars

\* A CheckpointManager on one directory, two jobs. A job's snapshots are its
\* CheckpointState::new and that state after update("a", 0). fs::write creates
\* or truncates the file and then writes the text, which the model does piece
\* by piece; the process can be terminated in between, and a load can come at
\* any time.
CheckpointDir == "checkpoints"
JobIds == {"j1", "j2"}
Snapshots(job_id) ==
    LET fresh == CheckpointState_new(job_id, DefaultConfig(1, 1), "t0")
    IN  {fresh, CheckpointState_update(fresh, <<97>>, 0, "t1")}

CheckpointInit ==
    /\ GeneratorIdle
    /\ DupIdle
    /\ fs = [p \in {checkpoint_path(CheckpointDir, id) : id \in JobIds} |-> None]
    /\ write_call = None
    /\ saving = None
    /\ loaded = None
    /\ history = [id \in JobIds |-> [kind |-> "never", state |-> None]]
    /\ DedupIdle /\ PatternIdle /\ FilterIdle /\ SessionIdle

otherVars ==
    <<config, pc, charset, len, tokens, enumerated, bounded, len_tokens, lens, status, dup_check,
      pipelineVars, dedup_calls, pattern_call, filter_run, write_call, sessionVars>>

\* save_checkpoint, up to the File::create of fs::write
SaveOpen ==
    /\ saving = None
    /\ \E id \in JobIds : \E s \in Snapshots(id) :
          /\ saving' = Some([job_id |-> id, state |-> s, json |-> to_string_pretty(s), written |-> 0])
          /\ fs' = [fs EXCEPT ![checkpoint_path(CheckpointDir, id)] = Some(<<>>)]
          /\ history' = [history EXCEPT ![id] = [kind |-> "saving", state |-> Some(s)]]
    /\ loaded' = None
    /\ UNCHANGED otherVars

\* save_checkpoint: the write_all of fs::write, one piece of the text; after
\* the last piece save_checkpoint returns
SaveWrite ==
    /\ saving # None
    /\ LET s == unwrap(saving)
           path == checkpoint_path(CheckpointDir, s.job_id)
           last == s.written + 1 = Len(s.json)
       IN  /\ fs' = [fs EXCEPT ![path] = Some(Append(unwrap(fs[path]), s.json[s.written + 1]))]
           /\ saving' = IF last THEN None ELSE Some([s EXCEPT !.written = s.written + 1])
           /\ history' = IF last THEN [history EXCEPT ![s.job_id] = [kind |-> "saved", state |-> Some(s.state)]]
                         ELSE history
    /\ loaded' = None
    /\ UNCHANGED otherVars

\* the process is terminated while save_checkpoint is writing
Terminate ==
    /\ saving # None
    /\ saving' = None
    /\ history' = [history EXCEPT ![unwrap(saving).job_id] =
                      [kind |-> "interrupted", state |-> Some(unwrap(saving).state)]]
    /\ loaded' = None
    /\ UNCHANGED <<otherVars, fs>>

LoadCheckpoint ==
    /\ \E id \in JobIds :
          loaded' = Some([job_id |-> id, result |-> load_checkpoint(fs, CheckpointDir, id)])
    /\ UNCHANGED <<otherVars, fs, saving, history>>

DeleteCheckpoint ==
    /\ saving = None
    /\ \E id \in JobIds :
          /\ fs' = delete_checkpoint(fs, CheckpointDir, id)
          /\ history' = [history EXCEPT ![id] = [kind |-> "deleted", state |-> None]]
    /\ loaded' = None
    /\ UNCHANGED <<otherVars, saving>>

CheckpointNext == SaveOpen \/ SaveWrite \/ Terminate \/ LoadCheckpoint \/ DeleteCheckpoint

CheckpointSpec == CheckpointInit /\ [][CheckpointNext]_vars

\* A JobManager on one directory, two jobs: save_job with any metadata a
\* caller can build, up to MaxSaves times, and load_job.
MaxSaves == 3
JobsDir == "jobs"
JobMetadata(job_id, job_status) ==
    [job_id |-> job_id, created_at |-> "t0", config |-> DefaultConfig(1, 1), status |-> job_status,
     tokens_count |-> 0, output_file |-> None, estimated_cardinality |-> 0]

JobInit ==
    /\ GeneratorIdle
    /\ DupIdle
    /\ fs = [p \in {job_path(JobsDir, id) : id \in JobIds} |-> None]
    /\ write_call = None
    /\ CheckpointIdle
    /\ job_log = [id \in JobIds |-> <<>>]
    /\ DedupIdle /\ PatternIdle /\ FilterIdle /\ LeetIdle /\ UpdateIdle /\ ResumeIdle

jobOtherVars ==
    <<config, pc, charset, len, tokens, enumerated, bounded, len_tokens, lens, status, dup_check,
      pipelineVars, dedup_calls, pattern_call, filter_run, write_call, saving, history,
      leet_call, checkpoint_state, updates, run, delivered>>

SaveJob ==
    /\ \E id \in JobIds, st \in JobStatus :
          /\ Len(job_log["j1"]) + Len(job_log["j2"]) < MaxSaves
          /\ fs' = save_job(fs, JobsDir, JobMetadata(id, st))
          /\ job_log' = [job_log EXCEPT ![id] = Append(@, st)]
    /\ loaded' = None
    /\ UNCHANGED jobOtherVars

LoadJob ==
    /\ \E id \in JobIds :
          loaded' = Some([job_id |-> id, result |-> load_job(fs, JobsDir, id)])
    /\ UNCHANGED <<jobOtherVars, fs, job_log>>

JobNext == SaveJob \/ LoadJob

JobSpec == JobInit /\ [][JobNext]_vars

\* apply_leet_basic on its own: "password", and every token of up to MaxLeet
\* characters out of "paswordA"
MaxLeet == 2
Password == <<112, 97, 115, 115, 119, 111, 114, 100>>
LeetChars == {112, 97, 115, 119, 111, 114, 100, 65}
LeetTokens == {Password} \cup UNION {[1..n -> LeetChars] : n \in 0..MaxLeet}

LeetInit ==
    /\ GeneratorIdle
    /\ DupIdle
    /\ leet_call \in [token : LeetTokens, result : {None}]
    /\ DedupIdle /\ PatternIdle /\ FilterIdle /\ StorageIdle /\ CheckpointIdle
    /\ JobIdle /\ UpdateIdle /\ ResumeIdle

ApplyLeetBasic ==
    /\ leet_call.result = None
    /\ leet_call' = [leet_call EXCEPT !.result = Some(apply_leet_basic(leet_call.token))]
    /\ UNCHANGED <<config, pc, charset, len, tokens, enumerated, bounded, len_tokens, lens, status,
                   dup_check, pipelineVars, dedup_calls, pattern_call, filter_run, fs, write_call,
                   saving, loaded, history, job_log, checkpoint_state, updates, run, delivered>>

LeetNext == ApplyLeetBasic

LeetSpec == LeetInit /\ [][LeetNext]_vars

\* A CheckpointState on its own: CheckpointState::new for one of two jobs and
\* one of two configs, then update up to MaxUpdates times, with the tokens "a"
\* and "b" and the indices 0 and 1. Clock(n) is Local::now() at the n-th call.
MaxUpdates == 3
UpdateTokens == {<<97>>, <<98>>}
UpdateIndices == {0, 1}
UpdateConfigs == {DefaultConfig(1, 1), DefaultConfig(1, 2)}
Clock(n) == <<"t", n>>

UpdateInit ==
    /\ GeneratorIdle
    /\ DupIdle
    /\ checkpoint_state = None
    /\ updates = <<>>
    /\ DedupIdle /\ PatternIdle /\ FilterIdle /\ StorageIdle /\ CheckpointIdle
    /\ JobIdle /\ LeetIdle /\ ResumeIdle

updateOtherVars ==
    <<config, pc, charset, len, tokens, enumerated, bounded, len_tokens, lens, status, dup_check,
      pipelineVars, dedup_calls, pattern_call, filter_run, fs, write_call, saving, loaded, history,
      job_log, leet_call, run, delivered>>

CheckpointNew ==
    /\ checkpoint_state = None
    /\ \E id \in JobIds, cfg \in UpdateConfigs :
          /\ checkpoint_state' = Some(CheckpointState_new(id, cfg, Clock(0)))
          /\ updates' = <<[op |-> "new", job_id |-> id, config |-> cfg]>>
    /\ UNCHANGED updateOtherVars

CheckpointUpdate ==
    /\ checkpoint_state # None
    /\ Len(updates) <= MaxUpdates
    /\ \E token \in UpdateTokens, index \in UpdateIndices :
          /\ checkpoint_state' = Some(CheckpointState_update(unwrap(checkpoint_state), token, index,
                                                             Clock(Len(updates))))
          /\ updates' = Append(updates, [op |-> "update", token |-> token, index |-> index])
    /\ UNCHANGED updateOtherVars

UpdateNext == CheckpointNew \/ CheckpointUpdate

UpdateSpec == UpdateInit /\ [][UpdateNext]_vars

\* ---------------------------------------------------------------- presets.rs
\* load_builtin_presets: the config of each built-in preset
BuiltinPresets ==
    [name \in {"pentest_default", "meme_humor_pack", "api_dev_wordlist",
               "social_media_usernames", "pattern_basic"} |->
        CASE name = "pentest_default" ->
                [DefaultConfig(8, 16) EXCEPT
                    !.charset = Some(CHARSETS_alnum \o <<33, 64, 35, 36, 37>>),
                    !.transforms = <<"capitalize", "append_numbers_4">>,
                    !.enabled_fields = <<"first_name_male_0", "last_name_0">>]
          [] name = "meme_humor_pack" ->
                [DefaultConfig(3, 140) EXCEPT
                    !.transforms = <<"random_case", "emoji_insertion">>,
                    !.enabled_fields = <<"meme_format_0", "emoji_smile_0">>]
          [] name = "api_dev_wordlist" ->
                [DefaultConfig(4, 20) EXCEPT
                    !.charset = Some(CHARSETS_lower \o CHARSETS_digit \o <<95, 45>>),
                    !.transforms = <<"lower">>,
                    !.enabled_fields = <<"dev_handle_0", "keyboard_walk_0">>]
          [] name = "social_media_usernames" ->
                [DefaultConfig(3, 32) EXCEPT
                    !.charset = Some(CHARSETS_lower \o CHARSETS_digit \o <<95>>),
                    !.transforms = <<"lower">>,
                    !.enabled_fields = <<"social_platform_0", "dev_handle_0">>]
          [] name = "pattern_basic" ->
                [DefaultConfig(4, 8) EXCEPT
                    !.pattern = Some(<<112, 97, 115, 115, 64, 64, 37, 37>>)]]

\* The Run command with --preset: the preset's config, --min and --max put
\* over it when given (main.rs 223-242). The enumerations the presets ask for
\* (76 characters at length 4 and more) are beyond the model, which follows
\* run_generation through validate, generate_fields, apply_transforms and
\* apply_filters.
MinOptions == {None, Some(0), Some(1), Some(1001)}
MaxOptions == {None, Some(1), Some(1001)}
RunConfig(preset, min, max) ==
    [BuiltinPresets[preset] EXCEPT
        !.min_length = IF is_some(min) THEN unwrap(min) ELSE @,
        !.max_length = IF is_some(max) THEN unwrap(max) ELSE @]

PresetInit ==
    /\ config \in {RunConfig(p, min, max) : p \in DOMAIN BuiltinPresets, min \in MinOptions,
                                            max \in MaxOptions}
    /\ entry = "run_generation"
    /\ GeneratorStart
    /\ DupIdle
    /\ LibraryIdle

\* run_generation, enabled_fields not empty and no pattern: generate_fields
GenerateFields ==
    /\ pc = "ready"
    /\ entry = "run_generation"
    /\ config.pattern = None
    /\ config.enabled_fields # <<>>
    /\ tokens' = generate_fields(config).value
    /\ pc' = "done"
    /\ UNCHANGED <<config, charset, len, enumerated, bounded, len_tokens, lens, status, dup_check,
                   pipelineVars, libraryVars>>

PresetNext == New \/ GenerateFields \/ BeginPattern \/ ApplyTransforms \/ ApplyFilters

PresetSpec == PresetInit /\ [][PresetNext]_vars

\* run_generation to standard output, killed at any point and started again
\* with the same config: the charset "ab" up to length MaxLen, with and without
\* a checkpoint directory configured. `delivered` is what reached the output.
MaxRuns == 2
ResumeConfigs ==
    {[DefaultConfig(1, max) EXCEPT !.charset = Some(<<97, 98>>), !.checkpoint_dir = dir] :
        max \in 1..MaxLen, dir \in {None, Some(CheckpointDir)}}

ResumeInit ==
    /\ config \in ResumeConfigs
    /\ entry = "run_generation"
    /\ GeneratorStart
    /\ DupIdle
    /\ fs = [p \in {checkpoint_path(CheckpointDir, id) : id \in JobIds} |-> None]
    /\ write_call = None
    /\ DedupIdle /\ PatternIdle /\ FilterIdle /\ CheckpointIdle
    /\ JobIdle /\ LeetIdle /\ UpdateIdle
    /\ run = 1
    /\ delivered = <<>>

\* the tokens this run has printed
Printed == Cardinality({i \in 1..Len(delivered) : delivered[i].run = run})

\* run_generation, lines 451-459: one `println!("{}", token)` of the loop over
\* filtered.iter().take(100); after the last one run_generation returns
PrintToken ==
    /\ pc = "filtered"
    /\ LET limit == IF Len(tokens) < 100 THEN Len(tokens) ELSE 100
       IN  IF Printed < limit
           THEN /\ delivered' = Append(delivered, [run |-> run, token |-> tokens[Printed + 1]])
                /\ pc' = IF Printed + 1 = limit THEN "exit" ELSE "filtered"
           ELSE /\ delivered' = delivered
                /\ pc' = "exit"
    /\ UNCHANGED <<config, charset, len, tokens, enumerated, bounded, len_tokens, lens, status,
                   dup_check, pipelineVars, dedup_calls, pattern_call, filter_run, fs, write_call,
                   saving, loaded, history, job_log, leet_call, checkpoint_state, updates, run>>

\* the process is killed; what it has printed stays printed, the files stay
Interrupt ==
    /\ pc \in {"new", "ready", "generating", "done", "transformed", "filtered"}
    /\ pc' = "killed"
    /\ UNCHANGED <<config, charset, len, tokens, enumerated, bounded, len_tokens, lens, status,
                   dup_check, pipelineVars, libraryVars>>

\* the same command is run again: a new process, nothing in memory
Restart ==
    /\ pc = "killed"
    /\ run < MaxRuns
    /\ run' = run + 1
    /\ pc' = "new"
    /\ charset' = <<>>
    /\ len' = 0
    /\ tokens' = <<>>
    /\ enumerated' = <<>>
    /\ bounded' = <<>>
    /\ len_tokens' = <<>>
    /\ lens' = <<>>
    /\ status' = None
    /\ applied' = <<>>
    /\ UNCHANGED <<config, entry, dup_check, dedup_calls, pattern_call, filter_run, fs, write_call,
                   saving, loaded, history, job_log, leet_call, checkpoint_state, updates, delivered>>

ResumeNext ==
    New \/ Begin \/ GenerateLength \/ ApplyTransforms \/ ApplyFilters \/ PrintToken \/ Interrupt
        \/ Restart

ResumeSpec == ResumeInit /\ [][ResumeNext]_vars


\* ------------------------------------------------------------- the claims
RECURSIVE Pow(_, _)
Pow(k, e) == IF e = 0 THEN 1 ELSE k * Pow(k, e - 1)

RECURSIVE Falling(_, _)
\* k (k-1) ... (k-e+1) = k!/(k-e)!, and 0 when e > k
Falling(k, e) == IF e = 0 THEN 1 ELSE IF k = 0 THEN 0 ELSE k * Falling(k - 1, e - 1)

\* the digits of n, a number below k^width, in base k, most significant first
Digits(k, width, n) == [i \in 1..width |-> (n \div Pow(k, width - i)) % k]

\* what a base-|chars| counter of the given width shows, from 0 up
CounterSeq(chars, width) ==
    LET k == Len(chars)
    IN  [n \in 1..Pow(k, width) |-> [i \in 1..width |-> chars[Digits(k, width, n - 1)[i] + 1]]]

Injective(f) == \A i, j \in DOMAIN f : i # j => f[i] # f[j]

\* the counter again, without the numbers that show a digit twice
PermutationSeq(chars, width) ==
    LET k == Len(chars)
        picks == SelectSeq([n \in 1..Pow(k, width) |-> Digits(k, width, n - 1)], Injective)
    IN  [n \in 1..Len(picks) |-> [i \in 1..width |-> chars[picks[n][i] + 1]]]

Occurrences(seq, x) == Cardinality({i \in 1..Len(seq) : seq[i] = x})

NoOptions(cfg) ==
    /\ cfg.start_string = None /\ cfg.end_string = None
    /\ cfg.prefix = None /\ cfg.suffix = None
    /\ cfg.duplicate_limit = None /\ cfg.max_lines = None /\ ~cfg.invert

Finished == pc \in {"done", "stack_overflow"}
OneLength == config.min_length = config.max_length

\* C1: in combination mode, with one length L and no other option,
\* generate_charset returns every length-L string over the charset exactly
\* once, in the order of a base-|charset| counter of width L.
C1_CounterOrder ==
    (Finished /\ OneLength /\ NoOptions(config) /\ ~config.permutations_only) =>
        /\ pc = "done"
        /\ tokens = CounterSeq(charset, config.max_length)
        /\ \A t \in [1..config.max_length -> Range(charset)] : Occurrences(tokens, t) = 1

\* C2: in permutation mode, with one length L and no other option, the result
\* is the length-L strings that use each charset position at most once, each
\* once, none with a repeated character, earlier positions varying slowest;
\* it is empty when L exceeds the charset.
C2_Permutations ==
    (Finished /\ OneLength /\ NoOptions(config) /\ config.permutations_only) =>
        /\ pc = "done"
        /\ tokens = PermutationSeq(charset, config.max_length)
        /\ \A i \in 1..Len(tokens) : Injective(tokens[i]) /\ Occurrences(tokens, tokens[i]) = 1
        /\ config.max_length > Len(charset) => tokens = <<>>

BatchDone == lens # <<>> /\ pc \in {"generating", "done"}
LastLen == lens[Len(lens)]

\* C3: the distinct tokens enumerated for a length L are |charset|^L in
\* combination mode and |charset|!/(|charset|-L)! in permutation mode.
C3_BatchCardinality ==
    BatchDone =>
        Cardinality(Range(enumerated)) =
            IF config.permutations_only THEN Falling(Len(charset), LastLen)
            ELSE Pow(Len(charset), LastLen)

\* C4: calculate_combinations gives k^L, or k!/(k-L)! in permutation mode,
\* for a charset of k characters, and that is the number of tokens the
\* enumerator emits for that charset and length.
C4_CalculatedIsEmitted ==
    (BatchDone /\ is_some(status)) =>
        /\ unwrap(status)[LastLen] =
              IF config.permutations_only THEN Falling(Len(charset), LastLen)
              ELSE Pow(Len(charset), LastLen)
        /\ unwrap(status)[LastLen] = Len(enumerated)


Ascending(chars) == \A i \in 1..(Len(chars) - 1) : chars[i] <= chars[i + 1]

\* start_string <= t <= end_string, for the bounds that are set
InBounds(t) ==
    /\ is_some(config.start_string) => str_le(unwrap(config.start_string), t)
    /\ is_some(config.end_string) => str_le(t, unwrap(config.end_string))

\* C5: for a charset in ascending order, the bounded batch of a length is the
\* enumerated tokens t with start_string <= t <= end_string, in their order,
\* whether or not the bounds are tokens of the charset; a run that fails has
\* failed in the enumeration, which the bounds have no part in.
C5_BoundedIsFilter ==
    /\ (BatchDone /\ Ascending(charset)) => bounded = SelectSeq(enumerated, InBounds)
    /\ (pc = "stack_overflow" /\ Ascending(charset)) => enumerate(config, charset, len).abort

\* charset "ab", length 2, start "ba", end "bb": [ba, bb] of the four tokens
C5_Witness ==
    /\ BatchDone /\ charset = <<97, 98>> /\ LastLen = 2 /\ ~config.permutations_only
    /\ config.start_string = Some(<<98, 97>>) /\ config.end_string = Some(<<98, 98>>)
    /\ Len(enumerated) = 4
    /\ bounded = <<<<98, 97>>, <<98, 98>>>>

\* C6: with no prefix and no suffix, every token generate_charset returns is
\* between start_string and end_string, whatever the order of the charset's
\* characters, in both modes and for every length.
C6_ReturnedInBounds ==
    (pc = "done" /\ config.prefix = None /\ config.suffix = None) =>
        \A i \in 1..Len(tokens) : InBounds(tokens[i])

\* what generate_charset returns for the config with invert off
NotInverted == generate_from_charset([config EXCEPT !.invert = FALSE], charset).tokens

LinesUncut == is_some(config.max_lines) => Len(len_tokens) <= unwrap(config.max_lines)

LongestRun(token) ==
    IF token = <<>> THEN 0
    ELSE SetMax({j - i + 1 : <<i, j>> \in
            {p \in (1..Len(token)) \X (1..Len(token)) :
                p[1] <= p[2] /\ \A k \in p[1]..p[2] : token[k] = token[p[1]]}})

RECURSIVE LeadingDigits(_)
LeadingDigits(s) ==
    IF s = <<>> \/ Head(s) \notin 48..57 THEN <<>>
    ELSE <<Head(s)>> \o LeadingDigits(Tail(s))

\* the number the leading decimal digits form, 1 when there are none
StatedLimit(limit_spec) ==
    IF LeadingDigits(limit_spec) = <<>> THEN 1 ELSE decimal(LeadingDigits(limit_spec))

\* C8: check_duplicate_limit rejects a token if and only if it has a run of
\* equal adjacent characters longer than the limit, the limit being the number
\* of the specifier's leading decimal digits (1 without any), 0 included.
C8_RejectsLongRuns ==
    is_some(dup_check.result) =>
        (unwrap(dup_check.result) = FALSE
            <=> LongestRun(dup_check.token) > StatedLimit(dup_check.limit_spec))

Decorated(t) ==
    (IF is_some(config.prefix) THEN unwrap(config.prefix) ELSE <<>>) \o t \o
    (IF is_some(config.suffix) THEN unwrap(config.suffix) ELSE <<>>)

\* C9: suppression judges the undecorated token: a bounded token is kept, with
\* its prefix and suffix, exactly when the token itself passes the duplicate
\* limit, and the bounded tokens are enumerated tokens within the bounds.
C9_SuppressionUndecorated ==
    BatchDone =>
        /\ \A i \in 1..Len(bounded) :
              Decorated(bounded[i]) \in Range(len_tokens)
                <=> (is_some(config.duplicate_limit)
                        => check_duplicate_limit(bounded[i], unwrap(config.duplicate_limit)))
        /\ \A i \in 1..Len(bounded) : bounded[i] \in Range(enumerated)

FirstN(seq, n) == SubSeq(seq, 1, IF n < Len(seq) THEN n ELSE Len(seq))

\* what generate_charset returns without max_lines, and without it for the
\* lengths up to l
Unlimited == generate_from_charset([config EXCEPT !.max_lines = None], charset)
UnlimitedUpTo(l) ==
    generate_from_charset([config EXCEPT !.max_lines = None, !.max_length = l], charset).tokens

\* C10: the lengths are enumerated in ascending order; with max_lines = n the
\* result is the first min(n, total) tokens of the result without max_lines,
\* the limit is reached at the last length enumerated and at none before it,
\* and the lengths stop short of max_length only when it is reached.
C10_MaxLinesCut ==
    /\ lens = [i \in 1..Len(lens) |-> config.min_length + i - 1]
    /\ (pc = "done" /\ is_some(config.max_lines)) =>
          LET n == unwrap(config.max_lines)
          IN  /\ Len(tokens) <= n
              /\ tokens = FirstN(UnlimitedUpTo(LastLen), n)
              /\ ~Unlimited.abort => tokens = FirstN(Unlimited.tokens, n)
              /\ \A l \in Range(lens) \ {LastLen} : Len(UnlimitedUpTo(l)) < n
              /\ LastLen < config.max_length => Len(UnlimitedUpTo(LastLen)) >= n

\* the limit cuts the first length's batch short and the second is never run
C10_Witness ==
    /\ pc = "done" /\ is_some(config.max_lines)
    /\ LastLen < config.max_length
    /\ Len(tokens) = unwrap(config.max_lines) /\ Len(tokens) > 0
    /\ Len(tokens) < Len(len_tokens)

\* the indices of the tokens that no earlier token of the list equals
FirstIndices(ts) == {i \in 1..Len(ts) : \A j \in 1..(i - 1) : ts[j] # ts[i]}

RECURSIVE Pick(_, _, _)
\* the elements of ts at the indices in S, from index i on, in order
Pick(ts, S, i) ==
    IF i > Len(ts) THEN <<>>
    ELSE (IF i \in S THEN <<ts[i]>> ELSE <<>>) \o Pick(ts, S, i + 1)

FirstOccurrences(ts) == Pick(ts, FirstIndices(ts), 1)

\* C11: every call of deduplicate, whatever was deduplicated before it,
\* returns its input without the later occurrences of a token: each token of
\* the input once, in the order of first occurrence; [x, y, x] gives [x, y].
C11_FirstOccurrences ==
    \A k \in 1..Len(dedup_calls) :
        LET c == dedup_calls[k]
        IN  /\ c.unique = FirstOccurrences(c.tokens)
            /\ \A t \in Range(c.tokens) : Occurrences(c.unique, t) = 1
            /\ Range(c.unique) \subseteq Range(c.tokens)
            /\ c.tokens = <<<<120>>, <<121>>, <<120>>>> => c.unique = <<<<120>>, <<121>>>>

\* [x, y, x] deduplicated by a Generator that has deduplicated [y, x, x] before
C11_Witness ==
    /\ Len(dedup_calls) = 2
    /\ dedup_calls[1].tokens = <<<<121>>, <<120>>, <<120>>>>
    /\ dedup_calls[2].tokens = <<<<120>>, <<121>>, <<120>>>>
    /\ dedup_calls[2].unique = <<<<120>>, <<121>>>>

\* the transform list names something parse_transform does not know
UnknownNamed == \E i \in 1..Len(config.transforms) : config.transforms[i] \notin TransformNames

\* apply_transforms has been called and has returned
TransformsCalled ==
    /\ pc \in {"transformed", "filtered", "transform_error"}
    /\ ~(entry = "run_generation" /\ config.transforms = <<>>)

\* C12: apply_transforms fails with TransformError exactly when the list
\* names an unknown transform, at whatever position, and then it has applied
\* no transform to any token; when it succeeds it has applied every transform
\* of the list to every token.
C12_UnknownTransformFailsFirst ==
    TransformsCalled =>
        /\ pc = "transform_error" <=> UnknownNamed
        /\ pc = "transform_error" => applied = <<>>
        /\ pc = "transformed" => Len(applied) = Len(tokens) * Len(config.transforms)

\* "reverse" is known and precedes "bogus": no token was reversed
C12_Witness ==
    /\ pc = "transform_error"
    /\ config.transforms = <<"reverse", "bogus">>
    /\ Len(tokens) >= 2
    /\ applied = <<>>

\* C13: when Generator::new, generate_full_pipeline or run_generation ends in
\* a ConfigError or a TransformError, no length has been enumerated and no
\* token produced.
C13_ErrorsBeforeTokens ==
    pc \in {"config_error", "transform_error"} => lens = <<>> /\ enumerated = <<>> /\ tokens = <<>>

LengthsValid(cfg) == 1 <= cfg.min_length /\ cfg.min_length <= cfg.max_length /\ cfg.max_length <= 1000

\* C14: validate accepts a config exactly when 1 <= min_length <= max_length
\* <= 1000; Generator::new fails exactly on the configs validate rejects, so a
\* Generator that exists holds a config within those bounds.
C14_ValidateBounds ==
    /\ validate(config) <=> LengthsValid(config)
    /\ pc # "new" => (pc = "config_error" <=> ~validate(config))
    /\ pc \notin {"new", "config_error"} => LengthsValid(config)

\* max_length 1001 alone is what makes Generator::new fail
C14_Witness ==
    /\ pc = "config_error"
    /\ config.min_length = 1 /\ config.max_length = 1001

\* generate_charset or generate_pattern has resolved the charset
Resolved == pc \notin {"new", "ready", "config_error"}

\* C15: the charset handed to the enumerator has no character twice, whether
\* it comes from config.charset, the default preset or expand_pattern.
C15_CharsetUnique ==
    Resolved => \A i, j \in 1..Len(charset) : i < j => charset[i] # charset[j]

Letters(first) == [i \in 1..26 |-> first + i - 1]
Digits09 == [i \in 1..10 |-> 47 + i]

\* what one pattern character stands for: itself when it is in the literal
\* set or is no marker, else the whole preset of the marker
Piece(ch, literals) ==
    IF ch \in literals THEN <<ch>>
    ELSE CASE ch = 64 -> Letters(97)
           [] ch = 37 -> Digits09
           [] ch = 44 -> Letters(65)
           [] ch = 63 -> Letters(97) \o Letters(65) \o Digits09
           [] ch = 94 -> CHARSETS_symbol
           [] ch = 33 -> Letters(97) \o Letters(65) \o Digits09 \o CHARSETS_symbol \o <<32>>
           [] OTHER -> <<ch>>

RECURSIVE Expansion(_, _)
Expansion(pattern, literals) ==
    IF pattern = <<>> THEN <<>>
    ELSE Piece(Head(pattern), literals) \o Expansion(Tail(pattern), literals)

\* C16: expand_pattern never fails, and its value is the pieces of the
\* pattern's characters in order, one piece per occurrence; "@@" without
\* literals expands to at least 52 characters.
C16_ExpandPattern ==
    pattern_call.result # None =>
        LET r == unwrap(pattern_call.result)
            literals == IF pattern_call.literal_markers = None THEN {}
                        ELSE Range(unwrap(pattern_call.literal_markers))
        IN  /\ r.ok
            /\ r.value = Expansion(pattern_call.pattern, literals)
            /\ (pattern_call.pattern = <<64, 64>> /\ literals = {}) => Len(r.value) >= 52

\* "@@" expanded to the 26 letters twice
C16_Witness ==
    /\ pattern_call.result # None
    /\ pattern_call.pattern = <<64, 64>> /\ pattern_call.literal_markers = None
    /\ unwrap(pattern_call.result).value = Letters(97) \o Letters(97)

\* the ways to put n things in an order
Orders(n) == {p \in [1..n -> 1..n] : Injective(p)}

\* C17: apply_batch keeps exactly the tokens every predicate of the chain
\* accepts (all of them for the empty chain), in their order, and the same
\* ones for every order of the predicates; a length(min, max) predicate
\* accepts exactly the tokens of min to max characters.
C17_ChainIsConjunction ==
    filter_run.result # None =>
        LET chain == filter_run.chain
            ts == filter_run.tokens
            out == unwrap(filter_run.result)
        IN  /\ out = SelectSeq(ts, LAMBDA t : \A i \in 1..Len(chain) : filter_call(chain[i], t))
            /\ chain = <<>> => out = ts
            /\ \A p \in Orders(Len(chain)) :
                  apply_batch([i \in 1..Len(chain) |-> chain[p[i]]], ts) = out
            /\ \E S \in SUBSET (1..Len(ts)) : out = Pick(ts, S, 1)
            /\ \A i \in 1..Len(chain) : \A k \in 1..Len(ts) :
                  chain[i].kind = "length" =>
                      (filter_call(chain[i], ts[k]) <=> Len(ts[k]) \in chain[i].lo..chain[i].hi)

RECURSIVE FromUtf8(_)
\* the characters a UTF-8 byte string encodes
FromUtf8(bytes) ==
    IF bytes = <<>> THEN <<>>
    ELSE IF bytes[1] < 128 THEN <<bytes[1]>> \o FromUtf8(SubSeq(bytes, 2, Len(bytes)))
    ELSE IF bytes[1] < 224
         THEN <<(bytes[1] - 192) * 64 + (bytes[2] - 128)>> \o FromUtf8(SubSeq(bytes, 3, Len(bytes)))
    ELSE <<(bytes[1] - 224) * 4096 + (bytes[2] - 128) * 64 + (bytes[3] - 128)>>
             \o FromUtf8(SubSeq(bytes, 4, Len(bytes)))

RECURSIVE SplitLines(_, _)
\* the lines of a text, each ended by '\n' (the last one by the end of the
\* text, if anything follows the last '\n'); line is the one being read
SplitLines(bytes, line) ==
    IF bytes = <<>> THEN (IF line = <<>> THEN <<>> ELSE <<line>>)
    ELSE IF Head(bytes) = 10 THEN <<line>> \o SplitLines(Tail(bytes), <<>>)
    ELSE SplitLines(Tail(bytes), Append(line, Head(bytes)))

\* a plain file read back line by line
ReadLines(file) ==
    LET lines == SplitLines(file.data, <<>>)
    IN  [i \in 1..Len(lines) |-> FromUtf8(lines[i])]

\* C18: after write_tokens without compression of tokens that hold no '\n',
\* whatever the file held before, the file read back line by line is the
\* tokens written, as many and in the same order.
C18_PlainRoundTrip ==
    write_call # None =>
        LET w == unwrap(write_call)
        IN  (w.compression = None /\ \A i \in 1..Len(w.tokens) : 10 \notin Range(w.tokens[i])) =>
                /\ w.result.ok
                /\ fs[w.output_path] # None
                /\ unwrap(fs[w.output_path]).codec = "none"
                /\ ReadLines(unwrap(fs[w.output_path])) = w.tokens

\* ["", e-acute] written over a file of two lines
C18_Witness ==
    /\ write_call # None
    /\ unwrap(write_call).compression = None
    /\ unwrap(write_call).tokens = <<<<>>, <<233>>>>
    /\ unwrap(write_call).before = Some([codec |-> "none", data |-> <<97, 10, 97, 10>>])
    /\ unwrap(fs["out.txt"]).data = <<10, 195, 169, 10>>

SameSnapshot(a, b) ==
    /\ a.job_id = b.job_id
    /\ a.tokens_generated = b.tokens_generated
    /\ a.last_token = b.last_token
    /\ a.current_length = b.current_length
    /\ a.start_index = b.start_index

\* C19: a load_checkpoint of a job whose last save or delete has completed
\* (or that has had none) returns the snapshot of that save, or None after a
\* delete or without a save, whatever was done to the other job.
C19_LoadReturnsLastSave ==
    loaded # None =>
        LET l == unwrap(loaded)
            h == history[l.job_id]
        IN  /\ h.kind = "saved" =>
                  /\ l.result.ok
                  /\ l.result.value # None
                  /\ SameSnapshot(unwrap(l.result.value), unwrap(h.state))
            /\ h.kind \in {"never", "deleted"} => l.result.ok /\ l.result.value = None

\* j1's updated snapshot is loaded while j2's file is half-written
C19_Witness ==
    /\ loaded # None
    /\ unwrap(loaded).job_id = "j1"
    /\ history["j1"].kind = "saved"
    /\ history["j2"].kind = "interrupted"
    /\ unwrap(loaded).result.ok
    /\ unwrap(unwrap(loaded).result.value).last_token = Some(<<97>>)
    /\ unwrap(unwrap(loaded).result.value).tokens_generated = 1

\* C20: every load_checkpoint, whenever it runs, returns None or a complete
\* snapshot given to save_checkpoint for the job, never an error.
C20_LoadNeverPartial ==
    loaded # None =>
        LET l == unwrap(loaded)
        IN  /\ l.result.ok
            /\ l.result.value = None \/ unwrap(l.result.value) \in Snapshots(l.job_id)

StatusSteps ==
    {<<"Pending", "Running">>, <<"Running", "Completed">>, <<"Running", "Failed">>,
     <<"Running", "Paused">>}

\* C21: the statuses stored for a job id follow Pending -> Running ->
\* {Completed | Failed | Paused}: the first one stored is Pending, and a stored
\* status changes only along one of these steps.
C21_StatusMachine ==
    \A id \in DOMAIN job_log :
        LET log == job_log[id]
        IN  /\ log # <<>> => log[1] = "Pending"
            /\ \A i \in 1..(Len(log) - 1) : log[i + 1] = log[i] \/ <<log[i], log[i + 1]>> \in StatusSteps

\* C22: write_tokens with a compression name that is none of gzip, bzip2, lz4,
\* zstd returns StorageError and leaves the output path as it was: no file
\* created, and a file that was there keeps its contents.
C22_UnsupportedLeavesFile ==
    (write_call # None /\ unwrap(write_call).compression # None
        /\ unwrap(unwrap(write_call).compression) \notin SupportedCodecs) =>
        LET call == unwrap(write_call)
        IN  /\ ~call.result.ok
            /\ call.result.error = "StorageError"
            /\ fs[call.output_path] = call.before

Contains(s, sub) == \E i \in 0..(Len(s) - Len(sub)) : SubSeq(s, i + 1, i + Len(sub)) = sub

\* "p4ssword" and "p4ss0rd"
P4ssword == <<112, 52, 115, 115, 119, 111, 114, 100>>
P4ss0rd == <<112, 52, 115, 115, 48, 114, 100>>

\* C24: apply_leet_basic puts '4' for 'a' and leaves 's', 'w', 'r' and 'd' as
\* they are; of "password" it makes a string that contains "p4ssword" or
\* "p4ss0rd".
C24_LeetBasicPassword ==
    leet_call.result # None =>
        LET r == unwrap(leet_call.result)
        IN  /\ r.ok
            /\ (\A i \in 1..Len(leet_call.token) : leet_call.token[i] \in {97, 115, 119, 114, 100}) =>
                   r.value = [i \in 1..Len(leet_call.token) |->
                                 IF leet_call.token[i] = 97 THEN 52 ELSE leet_call.token[i]]
            /\ leet_call.token = Password => Contains(r.value, P4ssword) \/ Contains(r.value, P4ss0rd)

\* C25: the enumeration of one length ends, its calls never nest deeper than
\* length + 1, and every token it emits has exactly `length` characters, for
\* every charset (empty, or of characters of several bytes) and valid length.
C25_DepthBounded ==
    lens # <<>> =>
        LET depth == enumerate_depth(config, charset, LastLen)
        IN  /\ pc # "stack_overflow"
            /\ depth # None
            /\ unwrap(depth) <= LastLen + 1
            /\ \A i \in 1..Len(enumerated) : Len(enumerated[i]) = LastLen

\* the decimal digits of a number below 10
Digit(n) == <<48 + n>>

\* C26: a chain of add_no_repeats(n) alone keeps exactly the tokens whose
\* longest run of equal adjacent characters is at most n (the empty token and
\* tokens that begin with a space included, n = 0 included), the same tokens
\* that check_duplicate_limit keeps for the limit n.
C26_NoRepeatsIsLongestRun ==
    (filter_run.result # None /\ Len(filter_run.chain) = 1
        /\ filter_run.chain[1].kind = "no_repeats") =>
        LET n == filter_run.chain[1].hi
        IN  /\ unwrap(filter_run.result) = SelectSeq(filter_run.tokens, LAMBDA t : LongestRun(t) <= n)
            /\ unwrap(filter_run.result) =
                   SelectSeq(filter_run.tokens, LAMBDA t : check_duplicate_limit(t, Digit(n)))

\* C27: with config.dedupe set, what generate_full_pipeline returns has no
\* token twice, whatever the charset, the transforms and the filters.
C27_PipelineUnique ==
    (entry = "generate_full_pipeline" /\ pc = "filtered" /\ config.dedupe) =>
        \A i, j \in 1..Len(tokens) : i < j => tokens[i] # tokens[j]

RECURSIVE IsSubSequence(_, _)
\* sub is what is left of seq when some of its elements are taken out
IsSubSequence(sub, seq) ==
    IF sub = <<>> THEN TRUE
    ELSE IF seq = <<>> THEN FALSE
    ELSE IF Head(sub) = Head(seq) THEN IsSubSequence(Tail(sub), Tail(seq))
    ELSE IsSubSequence(sub, Tail(seq))

\* C28: apply_filters returns an order-preserving sub-sequence of the tokens it
\* is given, with no token shorter than filters.min_len when that is set and
\* none longer than filters.max_len when that is set, the other bound set or not.
C28_EachBoundEnforced ==
    [][(pc = "transformed" /\ pc' = "filtered") =>
          /\ IsSubSequence(tokens', tokens)
          /\ is_some(config.filters.min_len) =>
                 \A i \in 1..Len(tokens') : Len(tokens'[i]) >= unwrap(config.filters.min_len)
          /\ is_some(config.filters.max_len) =>
                 \A i \in 1..Len(tokens') : Len(tokens'[i]) <= unwrap(config.filters.max_len)]_vars

\* the state CheckpointState::new and the updates made since should have left
UpdatesFrame ==
    checkpoint_state # None =>
        LET state == unwrap(checkpoint_state)
            n == Len(updates) - 1
            last == updates[Len(updates)]
        IN  /\ state.tokens_generated = n
            /\ state.last_token = IF n = 0 THEN None ELSE Some(last.token)
            /\ state.start_index = (IF n = 0 THEN 0 ELSE last.index)
            /\ state.job_id = updates[1].job_id
            /\ state.config = updates[1].config
            /\ state.current_length = 0

\* C30: after CheckpointState::new and n calls of update, tokens_generated is
\* n, last_token and start_index are the arguments of the last call (None and 0
\* for n = 0), job_id, config and current_length are as new left them, and
\* tokens_generated never decreases.
C30_UpdateFrame ==
    /\ []UpdatesFrame
    /\ [][(checkpoint_state # None /\ checkpoint_state' # None) =>
             unwrap(checkpoint_state').tokens_generated >= unwrap(checkpoint_state).tokens_generated]_vars

\* three updates made, the last with another token and index than the one before
C30_Witness ==
    /\ checkpoint_state # None
    /\ Len(updates) = 4
    /\ updates[4].token # updates[3].token /\ updates[4].index # updates[3].index
    /\ unwrap(checkpoint_state).tokens_generated = 3

BuiltinConfigs == {BuiltinPresets[p] : p \in DOMAIN BuiltinPresets}

\* C29: a built-in preset, run as it is, passes validate, every name of its
\* transforms list is one parse_transform resolves, and the run never fails
\* with ConfigError or TransformError.
C29_PresetsRunnable ==
    config \in BuiltinConfigs =>
        /\ pc # "new" => validate(config)
        /\ pc \notin {"config_error", "transform_error"}
        /\ pc \in {"transformed", "filtered"} =>
               \A i \in 1..Len(config.transforms) : is_some(parse_transform(config.transforms[i]))

\* C23: with a checkpoint directory configured, a run that has delivered
\* tokens leaves a checkpoint on disk, and a run of the same job started after
\* it delivers none of the tokens that were delivered before.
C23_Resumable ==
    config.checkpoint_dir # None =>
        /\ (run > 1 /\ \E i \in 1..Len(delivered) : delivered[i].run < run) =>
               \E p \in DOMAIN fs : fs[p] # None
        /\ \A i, j \in 1..Len(delivered) :
               delivered[i].run < delivered[j].run => delivered[i].token # delivered[j].token

====
